---- MODULE Spec2Model ----
(***************************************************************************)
(* AIGenerator (backend/ai_generator.py): the round-bounded tool-calling   *)
(* loop of generate_response, _execute_rounds and _execute_single_round.   *)
(*                                                                         *)
(* One behaviour is one invocation of generate_response.  The model        *)
(* endpoint (client.messages.create) and the tool manager (execute_tool)   *)
(* are the environment: every model call either returns a response drawn   *)
(* from Responses or raises, every tool invocation either returns a text   *)
(* or raises.                                                              *)
(*                                                                         *)
(* Python values are written as follows.  An Optional value is a sequence  *)
(* of length 0 (None) or 1.  A message content that is a plain string s is *)
(* StrContent(s); a content that is a list of blocks is a sequence of      *)
(* records.  The opaque values the code never inspects (block texts, call  *)
(* ids, tool arguments, tool outputs, exception messages) are labelled by  *)
(* where they come from, so that two different ones are never equal.       *)
(***************************************************************************)
EXTENDS Integers, Sequences, FiniteSets, TLC

\* ------------------------------------------------------------- bounds ----
\* Largest explicit max_rounds argument tried.
MaxRounds == 1
\* Largest number of content blocks in one model response.
MaxBlocks == 2

\* ---------------------------------------------------- program constants --
\* rounds_limit when max_rounds is None.
DefaultMaxRounds == 2
Temperature == 0
MaxTokens == 800

None == <<>>
Some(x) == <<x>>
IsNone(o) == o = <<>>

SYSTEM_PROMPT == "SYSTEM_PROMPT"
ModelName == "model"
ToolSchemas == <<"search_course_content">>
ToolNames == {"search_course_content"}

\* self.base_params as __init__ builds it
base_params == [model |-> ModelName, temperature |-> Temperature, max_tokens |-> MaxTokens]

\* ------------------------------------------------------------ values -----
StrContent(s) == <<[type |-> "str", value |-> s]>>

Message(role, content) == [role |-> role, content |-> content]

\* A content block of the response to the c-th model call, at position p.
TextBlock(c, p) == [type |-> "text", text |-> <<"text", c, p>>]
ToolUseBlock(c, p, n) ==
    [type |-> "tool_use", name |-> n, id |-> <<"toolu", c, p>>,
     input |-> <<"args", c, p>>]

BlockKinds == {"text"} \cup ToolNames

Block(c, p, k) == IF k = "text" THEN TextBlock(c, p) ELSE ToolUseBlock(c, p, k)

KindSeqs == UNION {[1..n -> BlockKinds] : n \in 1..MaxBlocks}

StopReasons == {"end_turn", "tool_use"}

\* The responses the endpoint may give to the c-th model call.
Responses(c) ==
    {[stop_reason |-> s, content |-> [p \in DOMAIN ks |-> Block(c, p, ks[p])]] :
        s \in StopReasons, ks \in KindSeqs}

NoResponse == [stop_reason |-> "none", content |-> <<>>]

\* What execute_tool(name, **input) returns, and the message of what it raises.
ToolOutput(name, input) == [prefix |-> "", body |-> <<"output", name, input>>]
ToolFailure(name, input) == <<"failure", name, input>>

\* f"Tool execution error: {str(e)}"
ToolErrorText(msg) == [prefix |-> "Tool execution error: ", body |-> msg]

\* Variant of ToolResultEntry: the tool's text is wrapped before it is stored.
ToolResultEntry_Wrapped(id, text) ==
    [type |-> "tool_result", tool_use_id |-> id,
     content |-> [prefix |-> "Result: ", body |-> text.body]]

ToolResultEntry(id, text) == [type |-> "tool_result", tool_use_id |-> id, content |-> text]

\* response.content[0].text; the attribute of a block that is not a text block
\* is an opaque value of that block.
TextAttr(block) ==
    IF block.type = "text" THEN block.text ELSE <<"text-of", block.id>>

FirstText(r) == TextAttr(r.content[1])

\* Variant of SystemContent: the conversation history is left out.
SystemContent_NoHistory(history) == <<SYSTEM_PROMPT>>

\* system_content of generate_response
SystemContent(history) ==
    IF ~IsNone(history) /\ history[1] # ""
    THEN <<SYSTEM_PROMPT, "\n\nPrevious conversation:\n", history[1]>>
    ELSE <<SYSTEM_PROMPT>>

\* `if tools:` -- None and the empty list are both false.
Truthy(tools) == ~IsNone(tools) /\ tools[1] # <<>>

\* ------------------------------------------------------------- state -----
VARIABLES
    pc,                    \* where generate_response is
    conversation_history,  \* argument: Optional string
    tools,                 \* argument: Optional list of schemas
    tool_manager,          \* argument: TRUE when a tool manager is passed
    max_rounds,            \* argument: Optional integer
    response,              \* generate_response: the first response
    rounds_limit,          \* _execute_rounds: max_rounds
    messages,              \* _execute_rounds: the copied message list
    current_response,      \* _execute_rounds
    rounds_completed,      \* _execute_rounds
    tool_results,          \* _execute_single_round
    block_idx,             \* _execute_single_round: position of the for loop
    calls,                 \* log: the keyword arguments of every messages.create
    responses,             \* log: the responses messages.create returned
    invocations,           \* log: every execute_tool call and how it ended
    answer,                \* Optional: what generate_response returned
    returned,              \* log: Optional, the response whose text was returned
    error,                 \* Optional: what generate_response raised
    self_base_params,      \* AIGenerator instance: self.base_params
    registry,              \* ToolManager: the registered tools, in order
    last_sources,          \* each registered tool's accumulated citations
    qpc,                   \* where the query of the coordinator is
    qid,                   \* log: which query this is
    qsources,              \* query: the citations read for this query
    qlog,                  \* log: the citation calls this query made
    qsession,              \* query: Optional, the session id it was given
    sessions,              \* SessionManager: each session's exchanges, oldest first
    other                  \* the invocation that is not running now

args == <<conversation_history, tools, tool_manager, max_rounds>>
locals == <<response, rounds_limit, messages, current_response, rounds_completed,
            tool_results, block_idx>>
logs == <<calls, responses, invocations>>
\* what one invocation of generate_response owns
invocation == <<pc, args, locals, logs, answer, returned, error>>
\* what lies outside one invocation: the instance, the registry, the query
\* that made the invocation, the other thread
instance == <<self_base_params>>
shared == <<registry, last_sources>>
store == <<sessions>>
query == <<qpc, qid, qsources, qlog, qsession>>
outer == <<instance, shared, store, query, other>>
vars == <<invocation, outer>>

\* The query argument of generate_response: the text of query number qid.
Query == <<"query", qid>>

Histories == {None, Some("history")}

\* The session ids the callers use, and the store in which no session has
\* an exchange.
SessionIds == {"session 1", "session 2"}
NoSessions == [s \in SessionIds |-> <<>>]
ToolsArgs == {None, Some(ToolSchemas)}
MaxRoundsArgs == {None} \cup {Some(n) : n \in 0..MaxRounds}

\* `other` when only one invocation exists.
NoThread == [pc |-> "none"]

EndpointError == "endpoint error"
ToolException == "tool exception"

\* A call as the endpoint sees it: the keyword arguments, and which list
\* object was passed as "messages".
CallRecord(params, list_object) == [params |-> params, list_object |-> list_object]

\* ------------------------------------------------------- generate_response
\* api_params as built by generate_response: "tools" and "tool_choice" are
\* keys of the dict only when tools is truthy (None = key absent).
ApiParams(history, tools_arg) ==
    [model |-> self_base_params.model,
     temperature |-> self_base_params.temperature,
     max_tokens |-> self_base_params.max_tokens,
     messages |-> <<Message("user", StrContent(Query))>>,
     system |-> SystemContent(history),
     tools |-> IF Truthy(tools_arg) THEN Some(tools_arg[1]) ELSE None,
     tool_choice |-> IF Truthy(tools_arg) THEN Some("auto") ELSE None]

\* Variant of RoundsLimit: the max_rounds argument is ignored.
RoundsLimit_ArgumentIgnored(mr) == DefaultMaxRounds

\* Variant of RoundsLimit: `max_rounds or 2`, a cap of zero counts as not given.
RoundsLimit_ZeroIsDefault(mr) ==
    IF IsNone(mr) \/ mr[1] = 0 THEN DefaultMaxRounds ELSE mr[1]

\* Variant of RoundsLimit: the cap is one round when max_rounds is not given.
RoundsLimit_DefaultOne(mr) == IF IsNone(mr) THEN 1 ELSE mr[1]

\* rounds_limit = max_rounds if max_rounds is not None else 2
RoundsLimit(mr) == IF IsNone(mr) THEN DefaultMaxRounds ELSE mr[1]

\* Variant of NeedsToolExecution: the tool manager is not looked at.
NeedsToolExecution_IgnoresManager(r, manager) == r.stop_reason = "tool_use"

\* `response.stop_reason == "tool_use" and tool_manager`
NeedsToolExecution(r, manager) == r.stop_reason = "tool_use" /\ manager

\* tools = base_params.get("tools", [])
ToolsOf(params) == IF IsNone(params.tools) THEN <<>> ELSE params.tools[1]

\* Variant of WhileCond: the round test is off by one.
WhileCond_OffByOne(r, completed, limit) == r.stop_reason = "tool_use" /\ completed <= limit

\* Variant of WhileCond: the stop reason is not looked at.
WhileCond_IgnoresStopReason(r, completed, limit) == completed < limit

\* the condition of the while loop of _execute_rounds
WhileCond(r, completed, limit) == r.stop_reason = "tool_use" /\ completed < limit

\* next_params of _execute_single_round
NextParams(msgs, system, tls) ==
    [model |-> self_base_params.model,
     temperature |-> self_base_params.temperature,
     max_tokens |-> self_base_params.max_tokens,
     messages |-> msgs,
     system |-> system,
     tools |-> Some(tls),
     tool_choice |-> Some("auto")]

\* Variant of WithResults: only the last result of the round is kept.
WithResults_LastOnly(msgs, results) ==
    IF results # <<>>
    THEN Append(msgs, [role |-> "user", content |-> <<results[Len(results)]>>])
    ELSE msgs

\* `if tool_results: messages.append({"role": "user", "content": tool_results})`
WithResults(msgs, results) ==
    IF results # <<>> THEN Append(msgs, Message("user", results)) ELSE msgs

Init ==
    /\ pc = "start"
    /\ conversation_history \in Histories
    /\ tools \in ToolsArgs
    /\ tool_manager \in BOOLEAN
    /\ max_rounds \in MaxRoundsArgs
    /\ response = NoResponse
    /\ rounds_limit = 0
    /\ messages = <<>>
    /\ current_response = NoResponse
    /\ rounds_completed = 0
    /\ tool_results = <<>>
    /\ block_idx = 0
    /\ calls = <<>>
    /\ responses = <<>>
    /\ invocations = <<>>
    /\ answer = None
    /\ returned = None
    /\ error = None
    /\ self_base_params = base_params
    /\ sessions = NoSessions
    /\ registry = <<>>
    /\ last_sources = <<>>
    /\ qpc = "none"
    /\ qid = 0
    /\ qsources = <<>>
    /\ qlog = <<>>
    /\ qsession = None
    /\ other = NoThread

\* generate_response up to the first messages.create, which returns.
FirstCall ==
    /\ pc = "start"
    /\ \E r \in Responses(1) :
        /\ calls' = Append(calls, CallRecord(ApiParams(conversation_history, tools), "api_params"))
        /\ responses' = Append(responses, r)
        /\ response' = r
    /\ pc' = "first_response"
    /\ UNCHANGED <<args, rounds_limit, messages, current_response, rounds_completed,
                   tool_results, block_idx, invocations, answer, returned, error>>
    /\ UNCHANGED outer

\* generate_response up to the first messages.create, which raises.
FirstCallFails ==
    /\ pc = "start"
    /\ calls' = Append(calls, CallRecord(ApiParams(conversation_history, tools), "api_params"))
    /\ error' = Some(EndpointError)
    /\ pc' = "raised"
    /\ UNCHANGED <<args, locals, responses, invocations, answer, returned>>
    /\ UNCHANGED outer

\* The first response asks for tools and there is a tool manager:
\* _execute_rounds starts.
EnterRounds ==
    /\ pc = "first_response"
    /\ NeedsToolExecution(response, tool_manager)
    /\ rounds_limit' = RoundsLimit(max_rounds)
    /\ messages' = ApiParams(conversation_history, tools).messages
    /\ current_response' = response
    /\ rounds_completed' = 0
    /\ pc' = "rounds"
    /\ UNCHANGED <<args, response, tool_results, block_idx, logs, answer, returned, error>>
    /\ UNCHANGED outer

\* `return response.content[0].text` of generate_response
ReturnDirect ==
    /\ pc = "first_response"
    /\ ~NeedsToolExecution(response, tool_manager)
    /\ answer' = Some(FirstText(response))
    /\ returned' = Some(response)
    /\ pc' = "done"
    /\ UNCHANGED <<args, locals, logs, error>>
    /\ UNCHANGED outer

\* Variant of BeginRound: every round starts again from the first call's
\* message list.
BeginRound_FreshCopy ==
    /\ pc = "rounds"
    /\ WhileCond(current_response, rounds_completed, rounds_limit)
    /\ messages' = Append(ApiParams(conversation_history, tools).messages,
                          Message("assistant", current_response.content))
    /\ tool_results' = <<>>
    /\ block_idx' = 1
    /\ pc' = "dispatch"
    /\ UNCHANGED <<args, response, rounds_limit, current_response, rounds_completed,
                   logs, answer, returned, error>>
    /\ UNCHANGED outer

\* Variant of BeginRound: only the tool_use blocks of the response are put
\* into the assistant message.
BeginRound_RequestsOnly ==
    /\ pc = "rounds"
    /\ WhileCond(current_response, rounds_completed, rounds_limit)
    /\ messages' = Append(messages, Message("assistant",
           SelectSeq(current_response.content, LAMBDA b : b.type = "tool_use")))
    /\ tool_results' = <<>>
    /\ block_idx' = 1
    /\ pc' = "dispatch"
    /\ UNCHANGED <<args, response, rounds_limit, current_response, rounds_completed,
                   logs, answer, returned, error>>
    /\ UNCHANGED outer

\* The while condition holds: _execute_single_round starts and appends the
\* assistant message.
BeginRound ==
    /\ pc = "rounds"
    /\ WhileCond(current_response, rounds_completed, rounds_limit)
    /\ messages' = Append(messages, Message("assistant", current_response.content))
    /\ tool_results' = <<>>
    /\ block_idx' = 1
    /\ pc' = "dispatch"
    /\ UNCHANGED <<args, response, rounds_limit, current_response, rounds_completed,
                   logs, answer, returned, error>>
    /\ UNCHANGED outer

\* Variant of ReturnFinal: the tools the last response asks for are run
\* before its text is returned.
ReturnFinal_ExecutesRequests ==
    /\ pc = "rounds"
    /\ ~WhileCond(current_response, rounds_completed, rounds_limit)
    /\ LET reqs == SelectSeq(current_response.content, LAMBDA b : b.type = "tool_use") IN
        invocations' = invocations \o
            [k \in DOMAIN reqs |->
                [name |-> reqs[k].name, input |-> reqs[k].input, raised |-> FALSE]]
    /\ answer' = Some(FirstText(current_response))
    /\ returned' = Some(current_response)
    /\ pc' = "done"
    /\ UNCHANGED <<args, locals, calls, responses, error>>
    /\ UNCHANGED outer

\* The while condition fails: `return current_response.content[0].text`
ReturnFinal ==
    /\ pc = "rounds"
    /\ ~WhileCond(current_response, rounds_completed, rounds_limit)
    /\ answer' = Some(FirstText(current_response))
    /\ returned' = Some(current_response)
    /\ pc' = "done"
    /\ UNCHANGED <<args, locals, logs, error>>
    /\ UNCHANGED outer

\* The for loop meets a block whose type is not "tool_use".
SkipBlock ==
    /\ pc = "dispatch"
    /\ block_idx <= Len(current_response.content)
    /\ current_response.content[block_idx].type # "tool_use"
    /\ block_idx' = block_idx + 1
    /\ UNCHANGED <<pc, args, response, rounds_limit, messages, current_response,
                   rounds_completed, tool_results, logs, answer, returned, error>>
    /\ UNCHANGED outer

\* Variant of ToolReturns: the for loop stops after the first tool call.
ToolReturns_StopsAfterFirst ==
    /\ pc = "dispatch"
    /\ block_idx <= Len(current_response.content)
    /\ LET b == current_response.content[block_idx] IN
        /\ b.type = "tool_use"
        /\ invocations' = Append(invocations,
               [name |-> b.name, input |-> b.input, raised |-> FALSE])
        /\ tool_results' = Append(tool_results,
               ToolResultEntry(b.id, ToolOutput(b.name, b.input)))
    /\ block_idx' = Len(current_response.content) + 1
    /\ UNCHANGED <<pc, args, response, rounds_limit, messages, current_response,
                   rounds_completed, calls, responses, answer, returned, error>>
    /\ UNCHANGED outer

\* The for loop meets a tool_use block and execute_tool returns.
ToolReturns ==
    /\ pc = "dispatch"
    /\ block_idx <= Len(current_response.content)
    /\ LET b == current_response.content[block_idx] IN
        /\ b.type = "tool_use"
        /\ invocations' = Append(invocations,
               [name |-> b.name, input |-> b.input, raised |-> FALSE])
        /\ tool_results' = Append(tool_results,
               ToolResultEntry(b.id, ToolOutput(b.name, b.input)))
    /\ block_idx' = block_idx + 1
    /\ UNCHANGED <<pc, args, response, rounds_limit, messages, current_response,
                   rounds_completed, calls, responses, answer, returned, error>>
    /\ UNCHANGED outer

\* Variant of ToolRaises: there is no except clause, the exception leaves
\* generate_response.
ToolRaises_Propagates ==
    /\ pc = "dispatch"
    /\ block_idx <= Len(current_response.content)
    /\ LET b == current_response.content[block_idx] IN
        /\ b.type = "tool_use"
        /\ invocations' = Append(invocations,
               [name |-> b.name, input |-> b.input, raised |-> TRUE])
    /\ error' = Some(ToolException)
    /\ pc' = "raised"
    /\ UNCHANGED <<args, locals, calls, responses, answer, returned>>
    /\ UNCHANGED outer

\* Variant of ToolRaises: a round in which a tool raised is not counted.
ToolRaises_RoundNotCounted ==
    /\ pc = "dispatch"
    /\ block_idx <= Len(current_response.content)
    /\ LET b == current_response.content[block_idx] IN
        /\ b.type = "tool_use"
        /\ invocations' = Append(invocations,
               [name |-> b.name, input |-> b.input, raised |-> TRUE])
        /\ tool_results' = Append(tool_results,
               ToolResultEntry(b.id, ToolErrorText(ToolFailure(b.name, b.input))))
    /\ block_idx' = block_idx + 1
    /\ rounds_completed' = rounds_completed - 1
    /\ UNCHANGED <<pc, args, response, rounds_limit, messages, current_response,
                   calls, responses, answer, returned, error>>
    /\ UNCHANGED outer

\* The for loop meets a tool_use block and execute_tool raises: the except
\* clause makes the error text the result.
ToolRaises ==
    /\ pc = "dispatch"
    /\ block_idx <= Len(current_response.content)
    /\ LET b == current_response.content[block_idx] IN
        /\ b.type = "tool_use"
        /\ invocations' = Append(invocations,
               [name |-> b.name, input |-> b.input, raised |-> TRUE])
        /\ tool_results' = Append(tool_results,
               ToolResultEntry(b.id, ToolErrorText(ToolFailure(b.name, b.input))))
    /\ block_idx' = block_idx + 1
    /\ UNCHANGED <<pc, args, response, rounds_limit, messages, current_response,
                   rounds_completed, calls, responses, answer, returned, error>>
    /\ UNCHANGED outer

\* Variant of FollowUpCall: the follow-up call does not wait for the end of
\* the for loop.
FollowUpCall_Early ==
    /\ pc = "dispatch"
    /\ LET msgs == WithResults(messages, tool_results)
           params == ApiParams(conversation_history, tools)
       IN /\ messages' = msgs
          /\ calls' = Append(calls,
                 CallRecord(NextParams(msgs, params.system, ToolsOf(params)), "messages"))
    /\ \E r \in Responses(Len(calls) + 1) :
        /\ responses' = Append(responses, r)
        /\ current_response' = r
    /\ rounds_completed' = rounds_completed + 1
    /\ pc' = "rounds"
    /\ UNCHANGED <<args, response, rounds_limit, tool_results, block_idx,
                   invocations, answer, returned, error>>
    /\ UNCHANGED outer

\* Variant of FollowUpCall: `rounds_completed += 1` is missing.
FollowUpCall_NotCounted ==
    /\ pc = "dispatch"
    /\ block_idx > Len(current_response.content)
    /\ LET msgs == WithResults(messages, tool_results)
           params == ApiParams(conversation_history, tools)
       IN /\ messages' = msgs
          /\ calls' = Append(calls,
                 CallRecord(NextParams(msgs, params.system, ToolsOf(params)), "messages"))
    /\ \E r \in Responses(Len(calls) + 1) :
        /\ responses' = Append(responses, r)
        /\ current_response' = r
    /\ pc' = "rounds"
    /\ UNCHANGED <<args, response, rounds_limit, rounds_completed, tool_results, block_idx,
                   invocations, answer, returned, error>>
    /\ UNCHANGED outer

\* After the for loop: the results are appended, messages.create returns,
\* and _execute_rounds counts the round.
FollowUpCall ==
    /\ pc = "dispatch"
    /\ block_idx > Len(current_response.content)
    /\ LET msgs == WithResults(messages, tool_results)
           params == ApiParams(conversation_history, tools)
       IN /\ messages' = msgs
          /\ calls' = Append(calls,
                 CallRecord(NextParams(msgs, params.system, ToolsOf(params)), "messages"))
    /\ \E r \in Responses(Len(calls) + 1) :
        /\ responses' = Append(responses, r)
        /\ current_response' = r
    /\ rounds_completed' = rounds_completed + 1
    /\ pc' = "rounds"
    /\ UNCHANGED <<args, response, rounds_limit, tool_results, block_idx,
                   invocations, answer, returned, error>>
    /\ UNCHANGED outer

\* Variant of FollowUpCallFails: the endpoint error is caught and its text
\* returned as the answer.
FollowUpCallFails_Swallowed ==
    /\ pc = "dispatch"
    /\ block_idx > Len(current_response.content)
    /\ LET msgs == WithResults(messages, tool_results)
           params == ApiParams(conversation_history, tools)
       IN /\ messages' = msgs
          /\ calls' = Append(calls,
                 CallRecord(NextParams(msgs, params.system, ToolsOf(params)), "messages"))
    /\ answer' = Some(<<"text-of", EndpointError>>)
    /\ returned' = Some(current_response)
    /\ pc' = "done"
    /\ UNCHANGED <<args, response, rounds_limit, current_response, rounds_completed,
                   tool_results, block_idx, responses, invocations, error>>
    /\ UNCHANGED outer

\* After the for loop: the results are appended and messages.create raises.
FollowUpCallFails ==
    /\ pc = "dispatch"
    /\ block_idx > Len(current_response.content)
    /\ LET msgs == WithResults(messages, tool_results)
           params == ApiParams(conversation_history, tools)
       IN /\ messages' = msgs
          /\ calls' = Append(calls,
                 CallRecord(NextParams(msgs, params.system, ToolsOf(params)), "messages"))
    /\ error' = Some(EndpointError)
    /\ pc' = "raised"
    /\ UNCHANGED <<args, response, rounds_limit, current_response, rounds_completed,
                   tool_results, block_idx, responses, invocations, answer, returned>>
    /\ UNCHANGED outer

Next ==
    \/ FirstCall
    \/ FirstCallFails
    \/ EnterRounds
    \/ ReturnDirect
    \/ BeginRound
    \/ ReturnFinal
    \/ SkipBlock
    \/ ToolReturns
    \/ ToolRaises
    \/ FollowUpCall
    \/ FollowUpCallFails

Spec == Init /\ [][Next]_vars

\* generate_response is one sequential call: whenever it has a next step it
\* takes it.
FairSpec == Spec /\ WF_vars(Next)

\* ============================================================ properties ==
\* R: the round cap of this invocation (the max_rounds argument, 2 when it
\* is not given).
R == IF max_rounds = None THEN DefaultMaxRounds ELSE max_rounds[1]

IsToolRequest(r) == r.stop_reason = "tool_use"

\* The number of responses, from the first one on, that request tools
\* without interruption.
LeadingToolRequests(rs) ==
    Cardinality({k \in 1..Len(rs) : \A j \in 1..k : IsToolRequest(rs[j])})

OffersTools(call) ==
    /\ call.params.tools = Some(ToolSchemas)
    /\ call.params.tool_choice = Some("auto")

WithdrawsTools(call) ==
    /\ call.params.tools = None
    /\ call.params.tool_choice = None

\* C1: with tools registered, a tool manager and R >= 1, when the model
\* requested tools in each of its first R responses, the (R+1)-th model call
\* is issued with no tool schemas and no tool choice, and every earlier call
\* offers the tools.
C1_ForcedFinalCallWithdrawsTools ==
    (tool_manager /\ Truthy(tools) /\ R >= 1) =>
        \A i \in 1..Len(calls) :
            /\ i <= R => OffersTools(calls[i])
            /\ i = R + 1 => WithdrawsTools(calls[i])

\* C2: the response whose text generate_response returns never has the stop
\* reason tool_use (stated for the invocations the loop is made for: tools
\* registered and a tool manager present; any round cap, any model).
C2_AnswerNeverAToolRequest ==
    (pc = "done" /\ tool_manager /\ Truthy(tools)) => ~IsToolRequest(returned[1])

\* C3: every invocation ends (it returns, or a model call failed), and never
\* more than R + 1 model calls are made.
C3_TerminatesWithinRPlusOneCalls ==
    /\ <>(pc = "done" \/ error = Some(EndpointError))
    /\ [](Len(calls) <= R + 1)

\* C3 witness: the model requested tools at every opportunity, R >= 1 rounds
\* were spent and generate_response has returned after R + 1 calls.
C3_Witness ==
    /\ pc = "done"
    /\ R >= 1
    /\ Len(calls) = R + 1
    /\ \A i \in 1..Len(responses) : IsToolRequest(responses[i])

\* C4: with tools registered, when generate_response has returned it made
\* exactly R + 1 model calls if the model requested tools at every
\* opportunity, and exactly k + 1 if it requested tools in its first k < R
\* responses and then answered.
C4_ModelCallCount ==
    (pc = "done" /\ tool_manager /\ Truthy(tools)) =>
        LET k == LeadingToolRequests(responses) IN
        /\ k = Len(responses) => Len(calls) = R + 1
        /\ (k < R /\ k < Len(responses)) => Len(calls) = k + 1

\* C4 witness: one tool round, then a plain answer, under a cap of two.
C4_Witness ==
    /\ pc = "done"
    /\ tool_manager /\ Truthy(tools)
    /\ R = 2
    /\ LeadingToolRequests(responses) = 1
    /\ Len(calls) = 2

\* ---- what the logs say about requests and results ----
\* The tool-invocation-request blocks of a content, in order.
ToolUses(content) == SelectSeq(content, LAMBDA b : b.type = "tool_use")

IsResultMessage(m) ==
    m.role = "user" /\ m.content # <<>> /\ m.content[1].type = "tool_result"

\* How many rounds have been dispatched: one assistant message each.
DispatchedRounds == Cardinality({j \in DOMAIN messages : messages[j].role = "assistant"})

\* The requests of the first n responses, in order.
RECURSIVE RequestsOf(_, _)
RequestsOf(rs, n) ==
    IF n = 0 THEN <<>> ELSE RequestsOf(rs, n - 1) \o ToolUses(rs[n].content)

\* The tool-result entries of the first n messages, in order.
RECURSIVE ResultsIn(_, _)
ResultsIn(msgs, n) ==
    IF n = 0 THEN <<>>
    ELSE ResultsIn(msgs, n - 1) \o
         (IF IsResultMessage(msgs[n]) THEN msgs[n].content ELSE <<>>)

\* Every result entry made so far: those in the buffer, then those of the
\* round being dispatched.
AllResults ==
    ResultsIn(messages, Len(messages)) \o (IF pc = "dispatch" THEN tool_results ELSE <<>>)

\* The requests of the round being dispatched that the for loop has not
\* reached yet.
PendingRequests ==
    IF pc = "dispatch"
    THEN Cardinality({p \in DOMAIN current_response.content :
            p >= block_idx /\ current_response.content[p].type = "tool_use"})
    ELSE 0

DispatchedRequests == RequestsOf(responses, DispatchedRounds)

\* The response a request block belongs to.
ResponseOf(request) == request.id[2]

\* C5: a tool invocation that raises never makes generate_response raise;
\* its result entry is "Tool execution error: <message>"; once its round is
\* over every request of that round has been invoked and the follow-up
\* model call has been issued.
C5_ToolFailureContained ==
    /\ pc = "raised" => error = Some(EndpointError)
    /\ Len(AllResults) = Len(invocations)
    /\ \A n \in 1..Len(invocations) :
        invocations[n].raised =>
            LET req == DispatchedRequests[n]
                c == ResponseOf(req)
            IN /\ AllResults[n].tool_use_id = req.id
               /\ AllResults[n].content =
                      ToolErrorText(ToolFailure(invocations[n].name, invocations[n].input))
               /\ (pc # "dispatch" \/ c < Len(responses)) =>
                      /\ Len(calls) >= c + 1
                      /\ Len(RequestsOf(responses, c)) <= Len(invocations)

\* C5 witness: a round of two requests whose first invocation raised and
\* whose second returned, and generate_response has returned an answer.
C5_Witness ==
    /\ pc = "done"
    /\ Len(invocations) >= 2
    /\ invocations[1].raised /\ ~invocations[2].raised
    /\ Len(ToolUses(responses[1].content)) = 2

\* The buffer sent in one model call pairs requests and results.
PairedBuffer(sent) ==
    \A j \in DOMAIN sent :
        /\ sent[j].role = "assistant" =>
            LET reqs == ToolUses(sent[j].content) IN
            reqs # <<>> =>
                /\ j + 1 <= Len(sent)
                /\ sent[j + 1].role = "user"
                /\ Len(sent[j + 1].content) = Len(reqs)
                /\ \A k \in DOMAIN reqs :
                    /\ sent[j + 1].content[k].type = "tool_result"
                    /\ sent[j + 1].content[k].tool_use_id = reqs[k].id
        /\ (j > 1 /\ sent[j].role = "user") =>
            /\ sent[j - 1].role = "assistant"
            /\ ToolUses(sent[j - 1].content) # <<>>
            /\ IsResultMessage(sent[j])

\* C6: at every follow-up model call, each assistant message of the buffer
\* with requests is directly followed by one user message holding exactly
\* one result entry per request, with the request's call id, in request
\* order; and every later user message is such a result message.
C6_OneResultPerRequest ==
    \A i \in 2..Len(calls) : PairedBuffer(calls[i].params.messages)

\* C6 witness: a third model call whose buffer holds a round of two
\* requests.
C6_Witness ==
    /\ Len(calls) = 3
    /\ Len(ToolUses(responses[1].content)) = 2
    /\ Len(ToolUses(responses[2].content)) = 1

\* C7: with no tool schemas supplied, exactly one model call is made and
\* its text is returned unchanged, whatever the model responds.
C7_NoToolsOneCall ==
    ~Truthy(tools) =>
        /\ Len(calls) <= 1
        /\ pc = "done" => answer = Some(FirstText(responses[1]))

IsStrictPrefix(a, b) == Len(a) < Len(b) /\ SubSeq(b, 1, Len(a)) = a

\* C8: the message sequence sent in each model call is a strict prefix of
\* the one sent in the next call.
C8_BufferAppendOnly ==
    \A i \in 1..(Len(calls) - 1) :
        IsStrictPrefix(calls[i].params.messages, calls[i + 1].params.messages)

\* C8 witness: three calls were made and a tool of the second round raised.
C8_Witness ==
    /\ Len(calls) = 3
    /\ Len(invocations) = 2
    /\ ~invocations[1].raised /\ invocations[2].raised

\* C9: the tool invocations are, in order, the requests of the dispatched
\* responses with their own name and arguments: all of them once a round
\* is over, all but the pending ones while a round is being dispatched.
C9_InvocationsFollowRequests ==
    /\ Len(invocations) + PendingRequests = Len(DispatchedRequests)
    /\ \A n \in 1..Len(invocations) :
        /\ invocations[n].name = DispatchedRequests[n].name
        /\ invocations[n].input = DispatchedRequests[n].input

\* C9 witness: two rounds, the first with two requests, all invoked.
C9_Witness ==
    /\ pc = "done"
    /\ DispatchedRounds = 2
    /\ Len(ToolUses(responses[1].content)) = 2
    /\ Len(invocations) >= 3

\* C10: a model call that fails ends generate_response with that error:
\* no answer, the failed call is the last call and was issued once, and
\* nothing further happens.
C10_EndpointFailureIsTerminal ==
    /\ Len(calls) # Len(responses) =>
        /\ pc = "raised"
        /\ Len(calls) = Len(responses) + 1
    /\ pc = "raised" =>
        /\ error = Some(EndpointError)
        /\ answer = None
        /\ ~ENABLED Next

\* C10 witness: the follow-up call of the first round failed after a tool
\* was invoked.
C10_Witness ==
    /\ pc = "raised"
    /\ Len(calls) = 2
    /\ Len(invocations) = 1

\* C11: a model call carries a tool list and a tool choice only when at
\* least one tool is registered; no call carries an empty tool list together
\* with the automatic tool choice.
C11_ToolsSentOnlyWhenRegistered ==
    \A i \in 1..Len(calls) :
        /\ (calls[i].params.tools # None \/ calls[i].params.tool_choice # None)
              => Truthy(tools)
        /\ ~(calls[i].params.tools = Some(<<>>) /\ calls[i].params.tool_choice = Some("auto"))

\* C12: with R = 0 the first model call is made and it is the only one; no
\* round is dispatched and no tool is invoked, whatever the first response.
C12_ZeroRoundsOneCall ==
    max_rounds = Some(0) =>
        /\ Len(calls) <= 1
        /\ pc # "start" => Len(calls) = 1
        /\ DispatchedRounds = 0
        /\ invocations = <<>>

\* C12 witness: R = 0, a tool manager, a first response that requests a
\* tool, and generate_response has returned.
C12_Witness ==
    /\ pc = "done"
    /\ max_rounds = Some(0)
    /\ tool_manager /\ Truthy(tools)
    /\ IsToolRequest(responses[1])
    /\ ToolUses(responses[1].content) # <<>>

\* C13: a response whose stop reason is not tool_use is the last one: it
\* is not dispatched, no tool is invoked for it, no further model call is
\* made, the only step left is the return, and the text returned is that
\* response's text.
C13_NonToolResponseEndsLoop ==
    \A i \in 1..Len(responses) :
        ~IsToolRequest(responses[i]) =>
            /\ i = Len(responses)
            /\ Len(calls) = i
            /\ DispatchedRounds < i
            /\ Len(invocations) = Len(RequestsOf(responses, i - 1))
            /\ pc \in {"first_response", "rounds", "done"}
            /\ pc = "done" =>
                /\ returned = Some(responses[i])
                /\ answer = Some(FirstText(responses[i]))
            /\ pc # "done" =>
                /\ ENABLED (ReturnDirect \/ ReturnFinal)
                /\ ~ENABLED (EnterRounds \/ BeginRound)

\* C13 witness: the second response is a plain answer that nevertheless
\* holds a tool_use block, the cap is not reached, and its text was returned.
C13_Witness ==
    /\ pc = "done"
    /\ R = 2
    /\ Len(responses) = 2
    /\ ~IsToolRequest(responses[2])
    /\ ToolUses(responses[2].content) # <<>>

\* C14: the content of the result entry of an invocation that returned is
\* exactly the text execute_tool returned, and the model call that follows
\* the round is sent that entry.
C14_ResultTextUnmodified ==
    \A n \in 1..Len(invocations) :
        ~invocations[n].raised =>
            LET out == ToolOutput(invocations[n].name, invocations[n].input)
                c == ResponseOf(DispatchedRequests[n])
            IN /\ AllResults[n].content = out
               /\ Len(calls) >= c + 1 =>
                    LET sent == calls[c + 1].params.messages
                        got == ResultsIn(sent, Len(sent))
                    IN /\ Len(got) >= n
                       /\ got[n] = AllResults[n]
                       /\ got[n].content = out
               /\ (pc # "dispatch" \/ c < Len(responses)) => Len(calls) >= c + 1

\* C14 witness: a tool returned in the first round and the second model
\* call has been answered.
C14_Witness ==
    /\ Len(responses) = 2
    /\ Len(invocations) >= 1
    /\ ~invocations[1].raised

\* C19: a follow-up model call is issued only when the for loop of the
\* round is over, with one result per request of the round, and the buffer
\* sent ends with the combined result message; a round is dispatched only
\* when every earlier round has had its follow-up response.
C19_FollowUpAfterWholeRound ==
    [][/\ (Len(calls') > Len(calls) /\ calls # <<>>) =>
            /\ pc = "dispatch"
            /\ PendingRequests = 0
            /\ block_idx > Len(current_response.content)
            /\ Len(tool_results) = Len(ToolUses(current_response.content))
            /\ calls'[Len(calls')].params.messages = WithResults(messages, tool_results)
            /\ Len(calls') = Len(calls) + 1
       /\ DispatchedRounds' > DispatchedRounds =>
            /\ pc = "rounds"
            /\ DispatchedRounds' = DispatchedRounds + 1
            /\ Len(responses) = DispatchedRounds + 1
            /\ Len(calls) = Len(responses)
      ]_vars

\* C19 witness: the second round is being dispatched, after a first round
\* of two requests.
C19_Witness ==
    /\ pc = "dispatch"
    /\ DispatchedRounds = 2
    /\ Len(ToolUses(responses[1].content)) = 2
    /\ Len(invocations) = 2

\* ====================================================== two invocations ==
\* Two threads call generate_response on the same AIGenerator.  The thread
\* that runs owns the invocation variables; `other` holds those of the
\* thread that waits.  self_base_params belongs to the instance and is the
\* same for both.

\* Largest number of content blocks in one response in the specifications
\* that hold more than one invocation.
ShortBlocks == 1

\* Everything a thread owns: the arguments and locals of its call of
\* generate_response, what the endpoint and the tools answered it, and the
\* locals of the query that made the call.
ThisThread ==
    [pc |-> pc, conversation_history |-> conversation_history, tools |-> tools,
     tool_manager |-> tool_manager, max_rounds |-> max_rounds,
     response |-> response, rounds_limit |-> rounds_limit, messages |-> messages,
     current_response |-> current_response, rounds_completed |-> rounds_completed,
     tool_results |-> tool_results, block_idx |-> block_idx,
     calls |-> calls, responses |-> responses, invocations |-> invocations,
     answer |-> answer, returned |-> returned, error |-> error,
     qpc |-> qpc, qid |-> qid, qsources |-> qsources, qlog |-> qlog,
     qsession |-> qsession]

\* A thread that has just called generate_response.
NewThread(id, history, tools_arg, manager, rounds) ==
    [pc |-> "start", conversation_history |-> history, tools |-> tools_arg,
     tool_manager |-> manager, max_rounds |-> rounds,
     response |-> NoResponse, rounds_limit |-> 0, messages |-> <<>>,
     current_response |-> NoResponse, rounds_completed |-> 0,
     tool_results |-> <<>>, block_idx |-> 0,
     calls |-> <<>>, responses |-> <<>>, invocations |-> <<>>,
     answer |-> None, returned |-> None, error |-> None,
     qpc |-> "none", qid |-> id, qsources |-> <<>>, qlog |-> <<>>,
     qsession |-> None]

\* The thread t runs.
Runs(t) ==
    /\ pc = t.pc
    /\ conversation_history = t.conversation_history
    /\ tools = t.tools
    /\ tool_manager = t.tool_manager
    /\ max_rounds = t.max_rounds
    /\ response = t.response
    /\ rounds_limit = t.rounds_limit
    /\ messages = t.messages
    /\ current_response = t.current_response
    /\ rounds_completed = t.rounds_completed
    /\ tool_results = t.tool_results
    /\ block_idx = t.block_idx
    /\ calls = t.calls
    /\ responses = t.responses
    /\ invocations = t.invocations
    /\ answer = t.answer
    /\ returned = t.returned
    /\ error = t.error
    /\ qpc = t.qpc
    /\ qid = t.qid
    /\ qsources = t.qsources
    /\ qlog = t.qlog
    /\ qsession = t.qsession

\* The thread t goes on where it was.
Resume(t) ==
    /\ pc' = t.pc
    /\ conversation_history' = t.conversation_history
    /\ tools' = t.tools
    /\ tool_manager' = t.tool_manager
    /\ max_rounds' = t.max_rounds
    /\ response' = t.response
    /\ rounds_limit' = t.rounds_limit
    /\ messages' = t.messages
    /\ current_response' = t.current_response
    /\ rounds_completed' = t.rounds_completed
    /\ tool_results' = t.tool_results
    /\ block_idx' = t.block_idx
    /\ calls' = t.calls
    /\ responses' = t.responses
    /\ invocations' = t.invocations
    /\ answer' = t.answer
    /\ returned' = t.returned
    /\ error' = t.error
    /\ qpc' = t.qpc
    /\ qid' = t.qid
    /\ qsources' = t.qsources
    /\ qlog' = t.qlog
    /\ qsession' = t.qsession

\* Variant of Switch: `messages` is kept on the instance, the thread that
\* resumes goes on with the list the other thread left.
Switch_SharedMessages ==
    /\ other # NoThread
    /\ Resume([other EXCEPT !.messages = messages])
    /\ other' = ThisThread
    /\ UNCHANGED <<instance, store, shared>>

\* The scheduler suspends the running thread and resumes the other one:
\* every argument and local of the three methods is the thread's own.
Switch ==
    /\ other # NoThread
    /\ Resume(other)
    /\ other' = ThisThread
    /\ UNCHANGED <<instance, store, shared>>

\* Two invocations with tools and a tool manager, a cap of one round each,
\* one without and one with a conversation history.
ReentrantInit ==
    /\ Runs(NewThread(1, None, Some(ToolSchemas), TRUE, Some(1)))
    /\ other = NewThread(2, Some("history"), Some(ToolSchemas), TRUE, Some(1))
    /\ self_base_params = base_params
    /\ sessions = NoSessions
    /\ registry = <<>>
    /\ last_sources = <<>>

FirstCallShort == FirstCall /\ Len(response'.content) <= ShortBlocks

FollowUpCallShort == FollowUpCall /\ Len(current_response'.content) <= ShortBlocks

ReentrantNext ==
    \/ FirstCallShort
    \/ FirstCallFails
    \/ EnterRounds
    \/ ReturnDirect
    \/ BeginRound
    \/ ReturnFinal
    \/ SkipBlock
    \/ ToolReturns
    \/ ToolRaises
    \/ FollowUpCallShort
    \/ FollowUpCallFails
    \/ Switch

SpecReentrant == ReentrantInit /\ [][ReentrantNext]_vars

\* ---- what the running invocation would do alone ----
\* The text the orchestrator makes of the n-th tool invocation.
ResultText(n) ==
    IF invocations[n].raised
    THEN ToolErrorText(ToolFailure(invocations[n].name, invocations[n].input))
    ELSE ToolOutput(invocations[n].name, invocations[n].input)

\* The result entries of the requests of the j-th response.
RoundResults(j) ==
    LET reqs == ToolUses(responses[j].content)
        before == Len(RequestsOf(responses, j - 1))
    IN [k \in DOMAIN reqs |-> ToolResultEntry(reqs[k].id, ResultText(before + k))]

\* The buffer after n rounds, built from this invocation's own query, the
\* responses it was given and the outcomes of its own tool invocations.
RECURSIVE AloneBuffer(_)
AloneBuffer(n) ==
    IF n = 0 THEN <<Message("user", StrContent(Query))>>
    ELSE WithResults(Append(AloneBuffer(n - 1), Message("assistant", responses[n].content)),
                     RoundResults(n))

\* The keyword arguments of the i-th model call of an invocation that runs
\* alone on a fresh instance.
AloneParams(i) ==
    [model |-> base_params.model,
     temperature |-> base_params.temperature,
     max_tokens |-> base_params.max_tokens,
     messages |-> AloneBuffer(i - 1),
     system |-> SystemContent(conversation_history),
     tools |-> IF i = 1 /\ ~Truthy(tools) THEN None
               ELSE Some(IF Truthy(tools) THEN tools[1] ELSE <<>>),
     tool_choice |-> IF i = 1 /\ ~Truthy(tools) THEN None ELSE Some("auto")]

Min(a, b) == IF a <= b THEN a ELSE b

\* C18: whatever the interleaving of two invocations on one AIGenerator,
\* the invocation that runs sends in every model call exactly what it would
\* send alone (its own query, its own responses and results), its buffer
\* and round counter are those of its own rounds, the answer it returns is
\* the text of its own last response after the number of calls it makes
\* alone, and self.base_params is what __init__ made it.
C18_InvocationsDoNotInterfere ==
    /\ self_base_params = base_params
    /\ \A i \in 1..Len(calls) : calls[i].params = AloneParams(i)
    /\ pc \in {"rounds", "dispatch"} => rounds_completed = Len(responses) - 1
    /\ pc = "rounds" => messages = AloneBuffer(rounds_completed)
    /\ pc = "dispatch" =>
        /\ messages = Append(AloneBuffer(rounds_completed),
                             Message("assistant", current_response.content))
        /\ current_response = responses[Len(responses)]
        /\ \A k \in DOMAIN tool_results :
              tool_results[k] = RoundResults(Len(responses))[k]
    /\ pc = "done" =>
        /\ answer = Some(FirstText(responses[Len(responses)]))
        /\ Len(calls) = Min(LeadingToolRequests(responses), R) + 1
        /\ Len(responses) = Len(calls)

\* C18 witness: both invocations have returned after a round each, with a
\* tool invoked in each, and the endpoint answered them differently.
C18_Witness ==
    /\ other # NoThread
    /\ pc = "done" /\ other.pc = "done"
    /\ Len(calls) = 2 /\ Len(other.calls) = 2
    /\ invocations # <<>> /\ other.invocations # <<>>
    /\ invocations[1].raised # other.invocations[1].raised
    /\ responses[2] # other.responses[2]

\* ================================================ registry and queries ==
\* ToolManager (the tool registry) and RAGSystem.query (the coordinator).
\* A query asks the ToolManager for the tool definitions, calls
\* generate_response with them and with the ToolManager as tool manager,
\* then reads the citations the tools recorded and resets them.

\* Largest number of queries one thread makes one after another.
MaxQueries == 2

SearchToolName == "search_course_content"
OutlineToolName == "get_course_outline"
RegistrableTools == {SearchToolName, OutlineToolName}

\* A tool object: the name it declares, and which object it is among those
\* that declare this name.
Tool(name, version) == [name |-> name, version |-> version]

\* name in self.tools
IsRegistered(reg, name) == \E i \in DOMAIN reg : reg[i].name = name

\* self.tools[name]
Lookup(reg, name) == reg[CHOOSE i \in DOMAIN reg : reg[i].name = name]

\* Variant of register_tool: a name that is registered already keeps the
\* tool it has.
register_tool_FirstWins(reg, tool) ==
    IF IsRegistered(reg, tool.name) THEN reg ELSE Append(reg, tool)

\* ToolManager.register_tool: self.tools[name] = tool.  A new name is added
\* after the others, a name that is registered already gets the new tool.
register_tool(reg, tool) ==
    IF IsRegistered(reg, tool.name)
    THEN [i \in DOMAIN reg |-> IF reg[i].name = tool.name THEN tool ELSE reg[i]]
    ELSE Append(reg, tool)

\* The citation lists after register_tool: the tool that comes in brings
\* its own list, which is empty.
SourcesAfterRegister(reg, sources, tool) ==
    IF IsRegistered(reg, tool.name)
    THEN [i \in DOMAIN reg |-> IF reg[i].name = tool.name THEN <<>> ELSE sources[i]]
    ELSE Append(sources, <<>>)

\* tool.get_tool_definition()
Schema(tool) == <<"schema", tool.name, tool.version>>

\* ToolManager.get_tool_definitions: one schema per registered tool, in
\* registration order.
get_tool_definitions(reg) == [i \in DOMAIN reg |-> Schema(reg[i])]

\* A citation a tool records, and the query whose execution recorded it.
Citation(q, input) == [source |-> <<"source", input>>, query |-> q]

\* The name of the tool that holds citations in the tests of the registry.
MockSearchToolName == "search_tool"

\* The tools that search the course content (and record citations); the
\* others look up a course outline.
IsSearchTool(name) == name \in {SearchToolName, MockSearchToolName}

\* The texts execute_tool returns.
NotFoundText(name) == [prefix |-> "", body |-> <<"Tool '", name, "' not found">>]
SearchOutput(tool, input) == [prefix |-> "", body |-> <<"passages", tool.version, input>>]
NoContentText == [prefix |-> "", body |-> <<"No relevant content found">>]
SearchErrorText(input) == [prefix |-> "Search error: ", body |-> <<"retrieval failure", input>>]
OutlineOutput(tool, input) == [prefix |-> "", body |-> <<"outline", tool.version, input>>]
NoCourseText(input) == [prefix |-> "", body |-> <<"No course found matching '", input, "'">>]

\* How an execution that returns can end, in a query.
Outcomes(reg, name) ==
    IF ~IsRegistered(reg, name) THEN {"not_found"}
    ELSE IF IsSearchTool(name) THEN {"found", "empty"}
    ELSE {"outline"}

\* How an execution that returns can end: a search finds one passage, or
\* two passages of the same lesson, or none, or the retrieval fails; an
\* outline lookup resolves the course or does not.
AllOutcomes(reg, name) ==
    IF ~IsRegistered(reg, name) THEN {"not_found"}
    ELSE IF IsSearchTool(name) THEN {"found", "found_two", "empty", "error"}
    ELSE {"outline", "no_course"}

\* tool.execute(**input): the text returned.
ToolExecute(tool, input, outcome) ==
    IF outcome \in {"found", "found_two"} THEN SearchOutput(tool, input)
    ELSE IF outcome = "empty" THEN NoContentText
    ELSE IF outcome = "error" THEN SearchErrorText(input)
    ELSE IF outcome = "outline" THEN OutlineOutput(tool, input)
    ELSE NoCourseText(input)

\* Variant of execute_tool: looking up a name that is not registered fails
\* with a KeyError, which the orchestrator turns into its error text.
execute_tool_KeyError(reg, name, input, outcome) ==
    IF ~IsRegistered(reg, name) THEN ToolErrorText(<<"KeyError", name>>)
    ELSE ToolExecute(Lookup(reg, name), input, outcome)

\* ToolManager.execute_tool(name, **input): the text returned.
execute_tool(reg, name, input, outcome) ==
    IF ~IsRegistered(reg, name) THEN NotFoundText(name)
    ELSE ToolExecute(Lookup(reg, name), input, outcome)

\* Variant of Recorded: an outline lookup records a citation too, and so
\* does a search whose retrieval failed.
Recorded_WhateverTheOutcome(name, input, outcome, q) ==
    IF outcome \in {"found", "outline", "error"} THEN <<Citation(q, input)>>
    ELSE IF outcome = "found_two" THEN <<Citation(q, input), Citation(q, input)>>
    ELSE <<>>

\* The citations an execution adds to its tool's last_sources: one per
\* passage found.
Recorded(name, input, outcome, q) ==
    IF outcome = "found" THEN <<Citation(q, input)>>
    ELSE IF outcome = "found_two" THEN <<Citation(q, input), Citation(q, input)>>
    ELSE <<>>

\* The citation lists after execute_tool(name, **input).
SourcesAfterExecute(reg, sources, name, input, outcome, q) ==
    [i \in DOMAIN sources |->
        IF reg[i].name = name
        THEN sources[i] \o Recorded(name, input, outcome, q)
        ELSE sources[i]]

RECURSIVE Flatten(_)
Flatten(ss) == IF ss = <<>> THEN <<>> ELSE Head(ss) \o Flatten(Tail(ss))

\* Variant of get_last_sources: the list of the first tool that has
\* citations.
get_last_sources_FirstTool(sources) ==
    IF \E i \in DOMAIN sources : sources[i] # <<>>
    THEN sources[CHOOSE i \in DOMAIN sources :
                    sources[i] # <<>> /\ \A j \in 1..(i - 1) : sources[j] = <<>>]
    ELSE <<>>

\* ToolManager.get_last_sources: the citations of every tool, in
\* registration order.
get_last_sources(sources) == Flatten(sources)

\* Variant of reset_sources: only the first tool is reset.
reset_sources_FirstTool(sources) ==
    [i \in DOMAIN sources |-> IF i = 1 THEN <<>> ELSE sources[i]]

\* ToolManager.reset_sources: every tool's last_sources = []
reset_sources(sources) == [i \in DOMAIN sources |-> <<>>]

\* Before the first query: a tool is registered.
RegisterTool ==
    /\ qpc = "idle"
    /\ qid = 0
    /\ \E name \in RegistrableTools :
        /\ ~IsRegistered(registry, name)
        /\ registry' = register_tool(registry, Tool(name, 1))
        /\ last_sources' = SourcesAfterRegister(registry, last_sources, Tool(name, 1))
    /\ UNCHANGED <<invocation, instance, store, query, other>>

\* RAGSystem.query up to its call of generate_response, with the
\* definitions of the registered tools and the ToolManager.
StartQuery ==
    /\ qpc = "idle"
    /\ qid < MaxQueries
    /\ Resume([NewThread(qid + 1, None, Some(get_tool_definitions(registry)), TRUE, None)
                  EXCEPT !.qpc = "generating", !.qlog = qlog])
    /\ UNCHANGED <<instance, store, shared, other>>

\* The for loop meets a tool_use block and ToolManager.execute_tool
\* returns: a search that found passages has recorded their citations.
ExecuteTool ==
    /\ qpc = "generating"
    /\ pc = "dispatch"
    /\ block_idx <= Len(current_response.content)
    /\ LET b == current_response.content[block_idx] IN
        /\ b.type = "tool_use"
        /\ \E outcome \in Outcomes(registry, b.name) :
            /\ tool_results' = Append(tool_results,
                   ToolResultEntry(b.id, execute_tool(registry, b.name, b.input, outcome)))
            /\ last_sources' =
                   SourcesAfterExecute(registry, last_sources, b.name, b.input, outcome, qid)
        /\ invocations' = Append(invocations,
               [name |-> b.name, input |-> b.input, raised |-> FALSE])
    /\ block_idx' = block_idx + 1
    /\ UNCHANGED <<pc, args, response, rounds_limit, messages, current_response,
                   rounds_completed, calls, responses, answer, returned, error>>
    /\ UNCHANGED <<instance, store, registry, query, other>>

\* The for loop meets a tool_use block and a registered tool raises.
ExecuteToolRaises ==
    /\ qpc = "generating"
    /\ pc = "dispatch"
    /\ block_idx <= Len(current_response.content)
    /\ current_response.content[block_idx].type = "tool_use"
    /\ IsRegistered(registry, current_response.content[block_idx].name)
    /\ ToolRaises

\* Variant of CollectSources: the citations are read only when
\* generate_response returned.
CollectSources_OnlyOnSuccess ==
    /\ qpc = "generating"
    /\ pc \in {"done", "raised"}
    /\ IF pc = "done"
       THEN /\ qsources' = get_last_sources(last_sources)
            /\ qlog' = Append(qlog, [op |-> "collect", query |-> qid, failed |-> FALSE,
                                     cited |-> get_last_sources(last_sources) # <<>>])
            /\ qpc' = "collected"
       ELSE /\ qpc' = "cleared"
            /\ UNCHANGED <<qsources, qlog>>
    /\ UNCHANGED <<invocation, instance, store, shared, qid, qsession, other>>

\* generate_response has returned or raised: the query reads the citations.
CollectSources ==
    /\ qpc = "generating"
    /\ pc \in {"done", "raised"}
    /\ qsources' = get_last_sources(last_sources)
    /\ qlog' = Append(qlog, [op |-> "collect", query |-> qid, failed |-> pc = "raised",
                             cited |-> get_last_sources(last_sources) # <<>>])
    /\ qpc' = "collected"
    /\ UNCHANGED <<invocation, instance, store, shared, qid, qsession, other>>

\* Variant of ResetSources: the citations are reset only when
\* generate_response returned.
ResetSources_OnlyOnSuccess ==
    /\ qpc = "collected"
    /\ last_sources' = IF pc = "done" THEN reset_sources(last_sources) ELSE last_sources
    /\ qlog' = Append(qlog, [op |-> "clear", query |-> qid, failed |-> pc = "raised", cited |-> FALSE])
    /\ qpc' = "cleared"
    /\ UNCHANGED <<invocation, instance, store, registry, qid, qsession, qsources, other>>

\* The query resets the citations it has read.
ResetSources ==
    /\ qpc = "collected"
    /\ last_sources' = reset_sources(last_sources)
    /\ qlog' = Append(qlog, [op |-> "clear", query |-> qid, failed |-> pc = "raised", cited |-> FALSE])
    /\ qpc' = "cleared"
    /\ UNCHANGED <<invocation, instance, store, registry, qid, qsession, qsources, other>>

\* The query returns the answer and the citations, or passes on the error
\* of generate_response.
FinishQuery ==
    /\ qpc = "cleared"
    /\ qpc' = "idle"
    /\ UNCHANGED <<invocation, instance, store, shared, qid, qsession, qsources, qlog, other>>

\* No tool is registered and no query has been made.
CoordinatorInit ==
    /\ Runs([NewThread(0, None, None, FALSE, None) EXCEPT !.pc = "none", !.qpc = "idle"])
    /\ other = NoThread
    /\ self_base_params = base_params
    /\ sessions = NoSessions
    /\ registry = <<>>
    /\ last_sources = <<>>

CoordinatorNext ==
    \/ RegisterTool
    \/ StartQuery
    \/ FirstCallShort
    \/ FirstCallFails
    \/ EnterRounds
    \/ ReturnDirect
    \/ BeginRound
    \/ ReturnFinal
    \/ SkipBlock
    \/ ExecuteTool
    \/ ExecuteToolRaises
    \/ FollowUpCallShort
    \/ FollowUpCallFails
    \/ CollectSources
    \/ ResetSources
    \/ FinishQuery

SpecCoordinator == CoordinatorInit /\ [][CoordinatorNext]_vars

\* The citation calls query q has made, in order.
CitationCalls(q) ==
    LET own == SelectSeq(qlog, LAMBDA e : e.query = q)
    IN [i \in DOMAIN own |-> own[i].op]

\* C15: every query, whether generate_response returned or failed with an
\* endpoint error, reads the citations and then resets them, each exactly
\* once, the reset after the read and both after generate_response has
\* finished: nothing before generate_response ends, the read alone in
\* between, both and no more once the query has ended.
C15_CollectThenClearOnEveryPath ==
    /\ CitationCalls(qid) # <<>> => pc \in {"done", "raised"}
    /\ qpc = "generating" => CitationCalls(qid) = <<>>
    /\ qpc = "collected" => CitationCalls(qid) = <<"collect">>
    /\ (qpc \in {"cleared", "idle"} /\ qid >= 1) =>
          CitationCalls(qid) = <<"collect", "clear">>
    /\ \A q \in 1..(qid - 1) : CitationCalls(q) = <<"collect", "clear">>

\* C15 witness: a query whose follow-up model call failed after a search
\* had found passages has read and reset the citations and has passed the
\* error on.
C15_Witness ==
    /\ qpc = "idle"
    /\ pc = "raised"
    /\ error = Some(EndpointError)
    /\ invocations # <<>>
    /\ \E i \in DOMAIN qlog :
          qlog[i].query = qid /\ qlog[i].op = "collect" /\ qlog[i].cited

\* C16: the citations a query has read were all recorded by tool
\* executions of that same query, whatever the queries before it did; and
\* between two queries no citation is left in the registry.
C16_NoCitationFromEarlierQuery ==
    /\ \A i \in DOMAIN qsources : qsources[i].query = qid
    /\ qpc = "idle" => get_last_sources(last_sources) = <<>>

\* C16 witness: the first query failed with an endpoint error after a
\* search had recorded a citation; the second query has returned citations.
C16_Witness ==
    /\ qid = 2
    /\ qpc = "idle"
    /\ pc = "done"
    /\ qsources # <<>>
    /\ \E i \in DOMAIN qlog :
          /\ qlog[i].query = 1 /\ qlog[i].op = "collect"
          /\ qlog[i].failed /\ qlog[i].cited

\* C20: an invocation of a name that is not registered, whatever was
\* registered before, does not raise and gives the not-found text that
\* names the tool; that text is the content of the request's result entry,
\* the round goes on and its follow-up model call is sent the entry.
C20_UnknownToolGivesNotFoundText ==
    /\ pc = "raised" => error = Some(EndpointError)
    /\ \A n \in 1..Len(invocations) :
        ~IsRegistered(registry, invocations[n].name) =>
            LET req == DispatchedRequests[n]
                c == ResponseOf(req)
            IN /\ ~invocations[n].raised
               /\ AllResults[n].tool_use_id = req.id
               /\ AllResults[n].content = NotFoundText(invocations[n].name)
               /\ (pc # "dispatch" \/ c < Len(responses)) =>
                    /\ Len(calls) >= c + 1
                    /\ LET sent == calls[c + 1].params.messages
                           got == ResultsIn(sent, Len(sent))
                       IN /\ Len(got) >= n
                          /\ got[n].content = NotFoundText(invocations[n].name)

\* C20 witness: only the outline tool is registered, the model asked for
\* the search tool in two rounds, and generate_response has returned.
C20_Witness ==
    /\ registry = <<Tool(OutlineToolName, 1)>>
    /\ pc = "done"
    /\ Len(invocations) = 2
    /\ invocations[1].name = SearchToolName
    /\ Len(calls) = 3

\* ==================================================== concurrent queries ==
\* Two threads run RAGSystem.query on the same RAGSystem: one ToolManager
\* with the search tool registered, one AIGenerator.  Each thread makes one
\* query; both have reached their call of generate_response.
ConcurrentInit ==
    /\ registry = <<Tool(SearchToolName, 1)>>
    /\ last_sources = <<<<>>>>
    /\ self_base_params = base_params
    /\ sessions = NoSessions
    /\ Runs([NewThread(1, None, Some(get_tool_definitions(<<Tool(SearchToolName, 1)>>)), TRUE, None)
                EXCEPT !.qpc = "generating"])
    /\ other = [NewThread(2, None, Some(get_tool_definitions(<<Tool(SearchToolName, 1)>>)), TRUE, None)
                   EXCEPT !.qpc = "generating"]

\* The steps of the two queries; in this specification neither the endpoint
\* nor a tool fails.
ConcurrentNext ==
    \/ FirstCallShort
    \/ EnterRounds
    \/ ReturnDirect
    \/ BeginRound
    \/ ReturnFinal
    \/ SkipBlock
    \/ ExecuteTool
    \/ FollowUpCallShort
    \/ CollectSources
    \/ ResetSources
    \/ FinishQuery
    \/ Switch

SpecConcurrent == ConcurrentInit /\ [][ConcurrentNext]_vars

\* The citations the tool executions of the running query recorded.
OwnCitations ==
    LET found == SelectSeq([n \in 1..Len(invocations) |->
                               [input |-> invocations[n].input,
                                content |-> AllResults[n].content]],
                           LAMBDA e : e.content = SearchOutput(Tool(SearchToolName, 1), e.input))
    IN [i \in DOMAIN found |-> Citation(qid, found[i].input)]

AnyHistoryInit ==
    /\ \E h \in {None, Some(""), Some("history")} :
          Runs(NewThread(0, h, Some(ToolSchemas), TRUE, Some(1)))
    /\ other = NoThread
    /\ self_base_params = base_params
    /\ sessions = NoSessions
    /\ registry = <<>>
    /\ last_sources = <<>>

\* The steps of generate_response with short responses.
ShortNext ==
    \/ FirstCallShort
    \/ FirstCallFails
    \/ EnterRounds
    \/ ReturnDirect
    \/ BeginRound
    \/ ReturnFinal
    \/ SkipBlock
    \/ ToolReturns
    \/ ToolRaises
    \/ FollowUpCallShort
    \/ FollowUpCallFails

SpecAnyHistory == AnyHistoryInit /\ [][ShortNext]_vars

\* C30: the system text of the first model call is the fixed instructions
\* alone when no conversation history is supplied, and the fixed
\* instructions followed by the history text when one is supplied (for the
\* empty text that is again the fixed instructions alone).
C30_SystemTextOfFirstCall ==
    calls # <<>> =>
        LET sys == calls[1].params.system IN
        /\ sys[1] = SYSTEM_PROMPT
        /\ conversation_history = None => sys = <<SYSTEM_PROMPT>>
        /\ conversation_history = Some("") => sys = <<SYSTEM_PROMPT>>
        /\ (conversation_history # None /\ conversation_history # Some("")) =>
              /\ Len(sys) > 1
              /\ sys[Len(sys)] = conversation_history[1]

\* C30 witness: a history was supplied and the first call has been made.
C30_Witness ==
    /\ conversation_history = Some("history")
    /\ Len(calls) = 2
    /\ calls[1].params.system[3] = "history"

\* ================================== without max_rounds and with max_rounds=2 ==
\* generate_response is called twice with the same query and arguments,
\* first without max_rounds, then with max_rounds = 2.  The second call is
\* given what the first was given: the same response to its n-th model
\* call (or the same failure), the same outcome of its n-th tool
\* invocation.  `other` holds the call that is not running.
DefaultRoundsInit ==
    /\ \E t \in ToolsArgs, m \in BOOLEAN :
        /\ Runs(NewThread(0, None, t, m, None))
        /\ other = NewThread(0, None, t, m, Some(2))
    /\ self_base_params = base_params
    /\ sessions = NoSessions
    /\ registry = <<>>
    /\ last_sources = <<>>

\* The steps of the first call in which the endpoint or a tool answers.
FirstRunFirstCall == max_rounds = None /\ FirstCallShort
FirstRunFirstCallFails == max_rounds = None /\ FirstCallFails
FirstRunToolReturns == max_rounds = None /\ ToolReturns
FirstRunToolRaises == max_rounds = None /\ ToolRaises
FirstRunFollowUpCall == max_rounds = None /\ FollowUpCallShort
FirstRunFollowUpCallFails == max_rounds = None /\ FollowUpCallFails

\* The first call has ended: the second call starts.
SecondRunStarts ==
    /\ max_rounds = None
    /\ pc \in {"done", "raised"}
    /\ Switch

\* The steps of the second call in which the endpoint or a tool answers as
\* it answered the first call.
SecondRunFirstCall ==
    /\ max_rounds # None
    /\ other.responses # <<>>
    /\ FirstCall
    /\ response' = other.responses[1]

SecondRunFirstCallFails ==
    /\ max_rounds # None
    /\ other.responses = <<>>
    /\ FirstCallFails

SecondRunToolReturns ==
    /\ max_rounds # None
    /\ Len(invocations) < Len(other.invocations) =>
          ~other.invocations[Len(invocations) + 1].raised
    /\ ToolReturns

SecondRunToolRaises ==
    /\ max_rounds # None
    /\ Len(invocations) < Len(other.invocations)
    /\ other.invocations[Len(invocations) + 1].raised
    /\ ToolRaises

SecondRunFollowUpCall ==
    /\ max_rounds # None
    /\ Len(calls) < Len(other.calls) => Len(calls) < Len(other.responses)
    /\ FollowUpCallShort
    /\ Len(calls) < Len(other.responses) =>
          current_response' = other.responses[Len(calls) + 1]

SecondRunFollowUpCallFails ==
    /\ max_rounds # None
    /\ Len(calls) < Len(other.calls)
    /\ Len(calls) >= Len(other.responses)
    /\ FollowUpCallFails

DefaultRoundsNext ==
    \/ FirstRunFirstCall
    \/ FirstRunFirstCallFails
    \/ FirstRunToolReturns
    \/ FirstRunToolRaises
    \/ FirstRunFollowUpCall
    \/ FirstRunFollowUpCallFails
    \/ SecondRunStarts
    \/ SecondRunFirstCall
    \/ SecondRunFirstCallFails
    \/ SecondRunToolReturns
    \/ SecondRunToolRaises
    \/ SecondRunFollowUpCall
    \/ SecondRunFollowUpCallFails
    \/ EnterRounds
    \/ ReturnDirect
    \/ BeginRound
    \/ ReturnFinal
    \/ SkipBlock

SpecDefaultRounds == DefaultRoundsInit /\ [][DefaultRoundsNext]_vars

\* C29: the call with max_rounds = 2, given the responses and tool
\* outcomes the call without max_rounds was given, makes the same model
\* calls with the same arguments and the same tool invocations in the same
\* order, never one more, and ends as the other ended: the same answer, or
\* the same error.
C29_DefaultIsTwoRounds ==
    max_rounds = Some(2) =>
        /\ Len(calls) <= Len(other.calls)
        /\ \A i \in 1..Len(calls) : calls[i] = other.calls[i]
        /\ Len(invocations) <= Len(other.invocations)
        /\ \A n \in 1..Len(invocations) : invocations[n] = other.invocations[n]
        /\ pc \in {"done", "raised"} =>
            /\ pc = other.pc
            /\ answer = other.answer
            /\ error = other.error
            /\ calls = other.calls
            /\ responses = other.responses
            /\ invocations = other.invocations
        /\ pc \notin {"done", "raised"} => ENABLED DefaultRoundsNext

\* C29 witness: both calls went through two rounds, with a tool that
\* raised, and returned.
C29_Witness ==
    /\ max_rounds = Some(2)
    /\ pc = "done"
    /\ Len(calls) = 3
    /\ Len(invocations) = 2
    /\ invocations[1].raised

\* ------------------------------------------------- counts and buffer sizes
\* The number of rounds an invocation that has returned went through, as
\* its responses alone determine it.
RoundsOf(rs) == IF tool_manager THEN Min(LeadingToolRequests(rs), R) ELSE 0

\* C27: the numbers of model calls, of rounds and of tool invocations are
\* what the responses alone determine, whether the tools returned or
\* raised; a round in which a tool raised is counted once and is followed
\* by one model call.
C27_FailuresDoNotChangeCounts ==
    /\ pc \in {"rounds", "dispatch"} =>
        /\ rounds_completed = Len(responses) - 1
        /\ Len(calls) = Len(responses)
    /\ Len(invocations) + PendingRequests = Len(DispatchedRequests)
    /\ pc = "done" =>
        /\ Len(calls) = RoundsOf(responses) + 1
        /\ DispatchedRounds = RoundsOf(responses)
        /\ tool_manager => rounds_completed = RoundsOf(responses)
        /\ Len(invocations) = Len(RequestsOf(responses, RoundsOf(responses)))
    /\ \A n \in 1..Len(invocations) :
        invocations[n].raised =>
            LET c == ResponseOf(DispatchedRequests[n]) IN
            /\ Cardinality({j \in DOMAIN messages :
                   messages[j] = Message("assistant", responses[c].content)}) = 1
            /\ (pc # "dispatch" \/ c < Len(responses)) =>
                   /\ Len(calls) >= c + 1
                   /\ pc \in {"rounds", "dispatch"} => rounds_completed >= c

\* C27 witness: two rounds, in the first a tool raised and another one
\* returned, and generate_response has returned after three model calls.
C27_Witness ==
    /\ pc = "done"
    /\ Len(calls) = 3
    /\ Len(invocations) = 3
    /\ invocations[1].raised /\ ~invocations[2].raised
    /\ rounds_completed = 2

\* C28: the first model call is sent a buffer of exactly one user message
\* holding the query, and the call that follows the k-th round is sent
\* exactly 1 + 2k messages: the query, then for every round one assistant
\* message and one user message of tool results.
C28_BufferSizePerRound ==
    \A i \in 1..Len(calls) :
        LET sent == calls[i].params.messages
            k == i - 1
        IN /\ sent[1] = Message("user", StrContent(Query))
           /\ Len(sent) = 1 + 2 * k
           /\ \A j \in 1..k :
                /\ sent[2 * j].role = "assistant"
                /\ IsResultMessage(sent[2 * j + 1])

\* ------------------------------------------- the registry, call by call -----
\* The ToolManager used directly, as its tests use it: any sequence of
\* register_tool, execute_tool, get_last_sources and reset_sources.  qlog is
\* the list of the tools register_tool was given, qpc names the last call,
\* invocations holds the last execute_tool call while it is the last call,
\* qsources is what the last get_last_sources returned.
MaxRegistrations == 2
MaxCitations == 2

RegistryNames == {SearchToolName, MockSearchToolName, OutlineToolName}
RegistryInputs == {"lesson 1", "lesson 2"}

RegistryInit ==
    /\ Runs([NewThread(0, None, None, FALSE, None) EXCEPT !.pc = "none", !.qpc = "idle"])
    /\ other = NoThread
    /\ self_base_params = base_params
    /\ sessions = NoSessions
    /\ registry = <<>>
    /\ last_sources = <<>>

\* manager.register_tool(tool): the tool is a new object each time.
RegistryRegister ==
    /\ Len(qlog) < MaxRegistrations
    /\ \E name \in RegistryNames :
        LET tool == Tool(name, Len(qlog) + 1) IN
        /\ registry' = register_tool(registry, tool)
        /\ last_sources' = SourcesAfterRegister(registry, last_sources, tool)
        /\ qlog' = Append(qlog, tool)
    /\ qpc' = "registered"
    /\ invocations' = <<>>
    /\ UNCHANGED <<pc, args, locals, calls, responses, answer, returned, error>>
    /\ UNCHANGED <<instance, store, qid, qsession, qsources, other>>

\* manager.execute_tool(name, **input), of a name that is registered or not.
RegistryExecute ==
    /\ \E name \in RegistryNames, input \in RegistryInputs :
        \E outcome \in AllOutcomes(registry, name) :
            /\ last_sources' =
                   SourcesAfterExecute(registry, last_sources, name, input, outcome, qid)
            /\ Len(get_last_sources(last_sources')) <= MaxCitations
            /\ invocations' = <<[name |-> name, input |-> input, raised |-> FALSE,
                                 outcome |-> outcome,
                                 result |-> execute_tool(registry, name, input, outcome)]>>
    /\ qpc' = "executed"
    /\ UNCHANGED <<pc, args, locals, calls, responses, answer, returned, error>>
    /\ UNCHANGED <<instance, store, registry, qid, qsession, qsources, qlog, other>>

\* manager.get_last_sources()
RegistryCollect ==
    /\ qsources' = get_last_sources(last_sources)
    /\ qpc' = "collected"
    /\ invocations' = <<>>
    /\ UNCHANGED <<pc, args, locals, calls, responses, answer, returned, error>>
    /\ UNCHANGED <<instance, store, shared, qid, qsession, qlog, other>>

\* manager.reset_sources()
RegistryClear ==
    /\ last_sources' = reset_sources(last_sources)
    /\ qpc' = "cleared"
    /\ invocations' = <<>>
    /\ UNCHANGED <<pc, args, locals, calls, responses, answer, returned, error>>
    /\ UNCHANGED <<instance, store, registry, qid, qsession, qsources, qlog, other>>

RegistryNext ==
    \/ RegistryRegister
    \/ RegistryExecute
    \/ RegistryCollect
    \/ RegistryClear

SpecRegistry == RegistryInit /\ [][RegistryNext]_vars

\* The register_tool calls that gave a tool of this name, by position in qlog.
RegistrationsOf(name) == {k \in DOMAIN qlog : qlog[k].name = name}

\* The tool the most recent register_tool call of this name gave.
LatestRegistered(name) ==
    qlog[CHOOSE k \in RegistrationsOf(name) : \A m \in RegistrationsOf(name) : m <= k]

\* C24: after any sequence of register calls (none of which fails: every one
\* of them is in the registry's state afterwards), the registry holds exactly
\* one entry per distinct tool name that was registered and none for other
\* names, that entry is the tool of the most recent register call of that
\* name, the definitions hold that tool's schema and no other schema of that
\* name, and an invoke of the name returns what that tool's execute returns.
C24_LastRegistrationWins ==
    /\ \A name \in RegistryNames :
        LET entries == {i \in DOMAIN registry : registry[i].name = name}
            defs == get_tool_definitions(registry)
        IN IF RegistrationsOf(name) = {}
           THEN /\ entries = {}
                /\ \A j \in DOMAIN defs : defs[j][2] # name
           ELSE /\ Cardinality(entries) = 1
                /\ \A i \in entries : registry[i] = LatestRegistered(name)
                /\ \E j \in DOMAIN defs : defs[j] = Schema(LatestRegistered(name))
                /\ \A j \in DOMAIN defs :
                      defs[j][2] = name => defs[j] = Schema(LatestRegistered(name))
    /\ Len(get_tool_definitions(registry)) = Len(registry)
    /\ qpc = "executed" =>
          LET c == invocations[1] IN
          RegistrationsOf(c.name) # {} =>
              c.result = ToolExecute(LatestRegistered(c.name), c.input, c.outcome)

\* A name has been registered twice and the invoke of it has returned the
\* passages the second tool found.
C24_Witness ==
    /\ qpc = "executed"
    /\ Len(qlog) = 2
    /\ qlog[1].name = SearchToolName
    /\ qlog[2].name = SearchToolName
    /\ invocations[1].name = SearchToolName
    /\ invocations[1].result = SearchOutput(qlog[2], invocations[1].input)
    /\ Len(registry) = 1

\* No registered tool holds a citation.
NoCitations(sources) == \A i \in DOMAIN sources : sources[i] = <<>>

FoundSearchStep ==
    /\ qpc' = "executed"
    /\ IsRegistered(registry, invocations'[1].name)
    /\ IsSearchTool(invocations'[1].name)
    /\ invocations'[1].outcome \in {"found", "found_two"}

\* The step is a register_tool call that replaces a tool holding citations.
ReplacesCitedToolStep ==
    /\ qpc' = "registered"
    /\ \E i \in DOMAIN registry :
          registry[i].name = qlog'[Len(qlog')].name /\ last_sources[i] # <<>>

RECURSIVE CitationsBefore(_, _)
CitationsBefore(sources, i) ==
    IF i <= 1 THEN 0 ELSE CitationsBefore(sources, i - 1) + Len(sources[i - 1])

\* How many passages a search found.
Passages(outcome) == IF outcome = "found_two" THEN 2 ELSE 1

\* C23: collect_citations returns every citation of every registered tool,
\* those of a tool registered earlier before those of a tool registered
\* later and each tool's in the order it recorded them; a content search
\* that found matches adds one citation per passage to the end of its tool's
\* list, a second passage of the same lesson included, and leaves the
\* citations recorded before, by it or by other tools, in place.
C23_CollectConcatenatesInRegistrationOrder ==
    [][/\ qpc' = "collected" =>
            /\ Len(qsources') = CitationsBefore(last_sources, Len(last_sources) + 1)
            /\ \A i \in DOMAIN last_sources : \A n \in 1..Len(last_sources[i]) :
                  qsources'[CitationsBefore(last_sources, i) + n] = last_sources[i][n]
       /\ FoundSearchStep =>
            LET c == invocations'[1] IN
            \A i \in DOMAIN registry :
                IF registry[i].name = c.name
                THEN /\ Len(last_sources'[i]) = Len(last_sources[i]) + Passages(c.outcome)
                     /\ \A n \in 1..Len(last_sources'[i]) :
                           last_sources'[i][n] =
                               IF n <= Len(last_sources[i]) THEN last_sources[i][n]
                               ELSE Citation(qid, c.input)
                ELSE last_sources'[i] = last_sources[i]
      ]_vars

\* Two tools hold citations, the one registered first a citation of another
\* lesson than the one registered second, and a collect has returned both,
\* the first tool's first.
C23_Witness ==
    /\ qpc = "collected"
    /\ Len(registry) = 2
    /\ Len(last_sources[1]) = 1
    /\ Len(last_sources[2]) = 1
    /\ last_sources[1][1] # last_sources[2][1]
    /\ qsources = <<last_sources[1][1], last_sources[2][1]>>

\* --------------------------------------------------- session histories -----
\* The SessionManager of RAGSystem and the query that is given a session id.
MAX_HISTORY == 2
MaxSessionQueries == 1

\* One (query, answer) pair of a session.
Exchange(q, a) == [query |-> q, answer |-> a]

\* The n last elements of a sequence.
LastN(seq, n) == IF Len(seq) <= n THEN seq ELSE SubSeq(seq, Len(seq) - n + 1, Len(seq))

\* Variant of add_exchange: a full history keeps its pairs and drops the new
\* one.
add_exchange_KeepsOldest(hist, sid, q, a) ==
    [hist EXCEPT ![sid] = SubSeq(Append(@, Exchange(q, a)), 1,
                                  IF Len(@) < MAX_HISTORY THEN Len(@) + 1 ELSE MAX_HISTORY)]

\* SessionManager.add_exchange(session_id, query, answer): the pair is added
\* after the others and the history is cut to its MAX_HISTORY latest pairs.
add_exchange(hist, sid, q, a) ==
    [hist EXCEPT ![sid] = LastN(Append(@, Exchange(q, a)), MAX_HISTORY)]

\* SessionManager.get_conversation_history(session_id): None for a session
\* without exchanges, else the text made of its exchanges (which exchanges
\* these are is in `sessions`; the text itself is not looked into).
get_conversation_history(hist, sid) ==
    IF hist[sid] = <<>> THEN None ELSE Some("history")

\* RAGSystem.query(query, session_id) up to its call of generate_response:
\* with a session id, the history of that session is fetched and passed on.
StartSessionQuery ==
    /\ qpc = "idle"
    /\ qid < MaxSessionQueries
    /\ \E sid \in {None} \cup {Some(s) : s \in SessionIds} :
        Resume([NewThread(qid + 1,
                          IF sid = None THEN None
                          ELSE get_conversation_history(sessions, sid[1]),
                          Some(get_tool_definitions(registry)), TRUE, None)
                   EXCEPT !.qpc = "generating", !.qsession = sid])
    /\ UNCHANGED <<instance, store, shared, other>>

\* Variant of FinishSessionQuery: the exchange is recorded on the error path
\* too, with no answer.
FinishSessionQuery_AlsoOnFailure ==
    /\ qpc = "cleared"
    /\ qpc' = "idle"
    /\ sessions' = IF qsession # None
                   THEN add_exchange(sessions, qsession[1], Query,
                                     IF pc = "done" THEN answer[1] ELSE <<"no answer">>)
                   ELSE sessions
    /\ UNCHANGED <<invocation, instance, shared, qid, qsession, qsources, qlog, other>>

\* The end of RAGSystem.query: when generate_response returned and a session
\* id was given, the exchange is added to the session; the answer and the
\* citations are returned, or the error of generate_response is passed on.
FinishSessionQuery ==
    /\ qpc = "cleared"
    /\ qpc' = "idle"
    /\ sessions' = IF pc = "done" /\ qsession # None
                   THEN add_exchange(sessions, qsession[1], Query, answer[1])
                   ELSE sessions
    /\ UNCHANGED <<invocation, instance, shared, qid, qsession, qsources, qlog, other>>

\* The exchange of a query made earlier.
EarlierExchange == Exchange(<<"query", 0>>, <<"text", 1, 1>>)

\* One search tool is registered; no session has an exchange, or the first
\* session has the exchange of a query made earlier.
SessionsInit ==
    /\ Runs([NewThread(0, None, None, FALSE, None) EXCEPT !.pc = "none", !.qpc = "idle"])
    /\ other = NoThread
    /\ self_base_params = base_params
    /\ \E h \in {<<>>, <<EarlierExchange>>} :
          sessions = [NoSessions EXCEPT !["session 1"] = h]
    /\ registry = <<Tool(SearchToolName, 1)>>
    /\ last_sources = <<<<>>>>

SessionsNext ==
    \/ StartSessionQuery
    \/ FirstCallShort
    \/ FirstCallFails
    \/ EnterRounds
    \/ ReturnDirect
    \/ BeginRound
    \/ ReturnFinal
    \/ SkipBlock
    \/ ExecuteTool
    \/ ExecuteToolRaises
    \/ FollowUpCallShort
    \/ FollowUpCallFails
    \/ CollectSources
    \/ ResetSources
    \/ FinishSessionQuery

SpecSessions == SessionsInit /\ [][SessionsNext]_vars

\* How many exchanges of the query q the sessions hold.
ExchangesOf(hist, q) ==
    Cardinality({<<sid, k>> \in SessionIds \X (1..MAX_HISTORY) :
                    k <= Len(hist[sid]) /\ hist[sid][k].query = q})

\* C25: the session histories change in one step only, the last step of a
\* query that was given a session id and whose generate_response has
\* returned: no step of the round loop and no query whose generate_response
\* raised changes them.  That step changes the history of the query's session
\* only, and adds to its end exactly one exchange, the query with the answer
\* generate_response returned; every such query makes it.
C25_OneExchangePerAnsweredSessionQuery ==
    [][/\ sessions' # sessions =>
            /\ qpc = "cleared" /\ qpc' = "idle"
            /\ pc = "done"
            /\ answer # None
            /\ qsession # None
            /\ \A s \in SessionIds \ {qsession[1]} : sessions'[s] = sessions[s]
            /\ LET old == sessions[qsession[1]]
                   new == sessions'[qsession[1]]
               IN /\ Len(new) = Min(Len(old) + 1, MAX_HISTORY)
                  /\ new[Len(new)] = Exchange(Query, answer[1])
                  /\ SubSeq(new, 1, Len(new) - 1) = LastN(old, Len(new) - 1)
       /\ (qpc = "cleared" /\ qpc' = "idle" /\ pc = "done" /\ qsession # None)
            => sessions' # sessions
       /\ qpc' \in {"generating", "collected", "cleared"}
            => ExchangesOf(sessions', Query') = 0
       /\ (qpc' = "idle" /\ qid' > 0)
            => ExchangesOf(sessions', Query') =
                  IF pc' = "done" /\ qsession' # None THEN 1 ELSE 0
      ]_vars

\* A query given the first session, which held an earlier exchange, has run
\* a round of tools and has ended: the session holds the earlier exchange and
\* then this one, the other session holds nothing.
C25_Witness ==
    /\ qpc = "idle"
    /\ qid = 1
    /\ pc = "done"
    /\ rounds_completed >= 1
    /\ qsession = Some("session 1")
    /\ sessions["session 1"] = <<EarlierExchange, Exchange(Query, answer[1])>>
    /\ sessions["session 2"] = <<>>

\* --------------------------------------- the session store, call by call -----
\* The SessionManager used directly: any sequence of add_exchange and
\* get_conversation_history calls.  qlog is the list of the add_exchange
\* calls, qsession the session of the last call, conversation_history what
\* the last get_conversation_history returned.
MaxExchanges == 3

\* The answers the exchanges are made with.
StoreAnswers == {<<"text", 1, 1>>, <<"text", 2, 1>>}

\* session_manager.add_exchange(session_id, query, answer), for the query
\* that has just been answered.
StoreAddExchange ==
    /\ Len(qlog) < MaxExchanges
    /\ \E sid \in SessionIds, a \in StoreAnswers :
        LET q == <<"query", Len(qlog) + 1>> IN
        /\ sessions' = add_exchange(sessions, sid, q, a)
        /\ qlog' = Append(qlog, [session |-> sid, exchange |-> Exchange(q, a)])
        /\ qsession' = Some(sid)
    /\ UNCHANGED <<invocation, instance, shared, qpc, qid, qsources, other>>

\* session_manager.get_conversation_history(session_id)
StoreGetHistory ==
    /\ \E sid \in SessionIds :
        /\ conversation_history' = get_conversation_history(sessions, sid)
        /\ qsession' = Some(sid)
    /\ UNCHANGED <<pc, tools, tool_manager, max_rounds, locals, logs, answer, returned, error>>
    /\ UNCHANGED <<instance, shared, store, qpc, qid, qsources, qlog, other>>

\* No session has an exchange.
SessionStoreInit ==
    /\ Runs([NewThread(0, None, None, FALSE, None) EXCEPT !.pc = "none", !.qpc = "idle"])
    /\ other = NoThread
    /\ self_base_params = base_params
    /\ sessions = NoSessions
    /\ registry = <<>>
    /\ last_sources = <<>>

SessionStoreNext ==
    \/ StoreAddExchange
    \/ StoreGetHistory

SpecSessionStore == SessionStoreInit /\ [][SessionStoreNext]_vars

\* The exchanges made on a session, in the order they were made.
ExchangesMade(sid) ==
    LET own == SelectSeq(qlog, LAMBDA e : e.session = sid)
    IN [k \in DOMAIN own |-> own[k].exchange]

\* C26: after any sequence of completed queries, every session's history
\* holds at most MAX_HISTORY exchanges: all the exchanges made on it while
\* these are at most MAX_HISTORY, and MAX_HISTORY of them from then on; they
\* are the most recent exchanges made on that session, in the order they
\* were made.
C26_HistoryIsTheMostRecentExchanges ==
    \A sid \in SessionIds :
        LET made == ExchangesMade(sid)
            held == sessions[sid]
        IN /\ Len(held) <= MAX_HISTORY
           /\ Len(held) = Min(Len(made), MAX_HISTORY)
           /\ \A k \in 1..Len(held) :
                 held[k] = made[Len(made) - Len(held) + k]

\* Three exchanges have been made on one session: it holds the second and
\* the third.
C26_Witness ==
    /\ Len(qlog) = 3
    /\ \A k \in 1..3 : qlog[k].session = "session 1"
    /\ sessions["session 1"] = <<qlog[2].exchange, qlog[3].exchange>>
    /\ sessions["session 2"] = <<>>

\* ------------------------------------------ the buffers the calls were sent -----
\* The roles of a buffer alternate, beginning and ending with a user message.
AlternatingRoles(sent) ==
    /\ sent # <<>>
    /\ sent[1].role = "user"
    /\ sent[Len(sent)].role = "user"
    /\ \A j \in 1..(Len(sent) - 1) :
          sent[j].role # sent[j + 1].role
          /\ sent[j].role \in {"user", "assistant"}

\* C31: at every model call the buffer sent starts with a user message, its
\* roles alternate strictly between user and assistant, and its last message
\* is a user message, whatever the model responded before, a response with
\* the stop reason tool_use and no tool_use block included.
C31_BufferRolesAlternate ==
    \A i \in 1..Len(calls) : AlternatingRoles(calls[i].params.messages)

\* C32: in every state of generate_response the round counter is between 0
\* and R and no more than R rounds have been dispatched; the counter never
\* decreases and changes by one at a time, exactly when the follow-up
\* response of a dispatched round has come in, so that it counts the rounds
\* whose follow-up call was answered.
C32_RoundCounterWithinCap ==
    /\ [](/\ rounds_completed \in 0..R
          /\ DispatchedRounds <= R
          /\ rounds_completed =
                IF pc \in {"dispatch", "raised"} /\ DispatchedRounds > 0
                THEN DispatchedRounds - 1 ELSE DispatchedRounds)
    /\ [][/\ rounds_completed' \in {rounds_completed, rounds_completed + 1}
          /\ rounds_completed' = rounds_completed + 1
                <=> (pc = "dispatch" /\ Len(responses') = Len(responses) + 1)
          /\ DispatchedRounds' \in {DispatchedRounds, DispatchedRounds + 1}
         ]_vars

\* Two rounds were dispatched under a cap of two, the model asked for tools
\* a third time, and generate_response has returned.
C32_Witness ==
    /\ pc = "done"
    /\ R = 2
    /\ rounds_completed = 2
    /\ DispatchedRounds = 2
    /\ IsToolRequest(responses[3])

\* A model call was sent the result entry of a request.
SentResultOf(call, req) ==
    \E j \in DOMAIN call.params.messages :
        /\ IsResultMessage(call.params.messages[j])
        /\ \E k \in DOMAIN call.params.messages[j].content :
              call.params.messages[j].content[k].tool_use_id = req.id

\* C33: every tool invocation is the invocation of a request of a response
\* c whose round was dispatched; while a round is in dispatch
\* generate_response cannot return and, the for loop over, issues the
\* follow-up call; once the round of response c is over, model call c + 1
\* has been issued and was sent the result entry of the invocation.  When
\* generate_response has returned, the response whose text it returned is
\* the last one and none of its requests was invoked.
C33_InvocationsAreFollowedByACall ==
    LET reqs == DispatchedRequests
        last == Len(responses)
    IN
    /\ Len(invocations) <= Len(reqs)
    /\ pc = "dispatch" =>
        /\ ~ENABLED (ReturnDirect \/ ReturnFinal)
        /\ block_idx > Len(current_response.content)
              => ENABLED (FollowUpCallFails \/ FollowUpCall)
    /\ \A n \in 1..Len(invocations) :
        LET c == ResponseOf(reqs[n])
        IN /\ c \in 1..last
           /\ \E p \in DOMAIN responses[c].content : responses[c].content[p] = reqs[n]
           /\ invocations[n].name = reqs[n].name
           /\ (pc # "dispatch" \/ c < last) =>
                /\ Len(calls) >= c + 1
                /\ SentResultOf(calls[c + 1], reqs[n])
    /\ pc = "done" =>
        /\ returned = Some(responses[last])
        /\ \A n \in 1..Len(invocations) : ResponseOf(reqs[n]) < last

\* generate_response has returned the text of a response that asks for a
\* tool, after a round in which a tool was invoked: the tool of the first
\* response was invoked, the tool of the returned response was not.
C33_Witness ==
    /\ pc = "done"
    /\ Len(responses) = 2
    /\ IsToolRequest(returned[1])
    /\ ToolUses(returned[1].content) # <<>>
    /\ Len(invocations) = 1
    /\ Len(ToolUses(responses[1].content)) = 1

\* C34: when generate_response is called without a tool manager, no tool is
\* invoked, at most one model call is issued, and when it has returned
\* exactly one call was made and the text returned is the text of the first
\* response, whatever its stop reason.
C34_NoManagerOneCallNoTools ==
    ~tool_manager =>
        /\ invocations = <<>>
        /\ Len(calls) <= 1
        /\ pc \notin {"rounds", "dispatch"}
        /\ pc = "done" =>
            /\ Len(calls) = 1
            /\ Len(responses) = 1
            /\ returned = Some(responses[1])
            /\ answer = Some(FirstText(responses[1]))

\* Without a tool manager, the text of a tool-requesting first response,
\* tool schemas given, has been returned.
C34_Witness ==
    /\ ~tool_manager
    /\ Truthy(tools)
    /\ pc = "done"
    /\ IsToolRequest(responses[1])
    /\ ToolUses(responses[1].content) # <<>>
    /\ answer = Some(FirstText(responses[1]))

\* The keyword arguments of a call other than its message buffer.
WithoutMessages(params) == [params EXCEPT !.messages = <<>>]

\* C35: every follow-up model call of a query is made with the keyword
\* arguments of the query's first model call (system text, model, temperature,
\* token limit, tool list, tool choice): only the message buffer differs.
C35_FollowUpCallsKeepTheParameters ==
    \A i \in 2..Len(calls) :
        WithoutMessages(calls[i].params) = WithoutMessages(calls[1].params)

\* ------------------------------------------ the list objects of the calls -----
\* What the list object a call was handed holds now.  The first call was
\* handed api_params["messages"], which _execute_rounds copies and nothing
\* appends to; every follow-up call was handed the list `messages` of
\* _execute_rounds itself, the object _execute_single_round appends to and
\* returns.
ListObjectNow(call) ==
    IF call.list_object = "api_params"
    THEN ApiParams(conversation_history, tools).messages
    ELSE messages

\* C36: the message list handed to a model call is never modified after the
\* call has been issued: the list object of every call issued so far holds
\* what it held when the call was issued.
C36_IssuedListsNeverModified ==
    \A i \in 1..Len(calls) : ListObjectNow(calls[i]) = calls[i].params.messages

\* --------------------------------------------- text blocks among requests -----
AssistantMessages == SelectSeq(messages, LAMBDA m : m.role = "assistant")

\* The request blocks the for loops have reached so far, in order.
ReachedRequests ==
    IF pc = "dispatch"
    THEN RequestsOf(responses, DispatchedRounds - 1)
         \o ToolUses(SubSeq(current_response.content, 1, block_idx - 1))
    ELSE DispatchedRequests

IsMixed(content) ==
    /\ \E p \in DOMAIN content : content[p].type = "text"
    /\ \E p \in DOMAIN content : content[p].type = "tool_use"

\* C37: the assistant message of every dispatched round holds the whole
\* content of the round's response, text blocks included, unchanged; the
\* tools invoked and the result entries made are, one each and in order,
\* those of the tool_use blocks the for loops have reached: a text block is
\* neither dispatched nor given a result entry.
C37_OnlyRequestBlocksDispatched ==
    LET reached == ReachedRequests
        results == AllResults
        assistant == AssistantMessages
    IN
    /\ \A d \in DOMAIN assistant : assistant[d].content = responses[d].content
    /\ Len(invocations) = Len(reached)
    /\ Len(results) = Len(reached)
    /\ \A k \in DOMAIN reached :
          /\ invocations[k].name = reached[k].name
          /\ invocations[k].input = reached[k].input
          /\ results[k].type = "tool_result"
          /\ results[k].tool_use_id = reached[k].id

\* A tool-requesting response of a text block and a tool_use block has been
\* dispatched: one tool invoked, one result entry, the assistant message
\* holding both blocks.
C37_Witness ==
    /\ pc = "done"
    /\ Len(messages) = 3
    /\ IsToolRequest(responses[1])
    /\ IsMixed(responses[1].content)
    /\ messages[2] = Message("assistant", responses[1].content)
    /\ Len(messages[3].content) = 1
    /\ Len(invocations) = 1

====
